---------------------------- MODULE Spec2Model ----------------------------
(***************************************************************************)
(* image_transport: CameraSubscriber (synchronized image + camera_info     *)
(* subscription with a synchronization watchdog) and SimplePublisherPlugin *)
(* (single-topic publisher plugin base).                                   *)
(*                                                                         *)
(* Callbacks of one CameraSubscriber run on one executor, so each callback *)
(* (message arrival, timer tick) and each public call is one atomic step.  *)
(***************************************************************************)
EXTENDS Integers, Sequences, FiniteSets, TLC

\* ------------------------------------------------------------------ bounds
\* Time keys (header stamps) that arriving messages carry.
MaxKey == 2
\* Arrivals counted per side before the next health check must run.
MaxImage == 10
MaxInfo == 4
\* Plugin calls: advertise calls, messages sent and errors logged.
MaxAdvertise == 2
MaxPublished == 2
MaxErrors == 2
\* Subscribers a channel may report.
MaxSubscribers == 2
\* publishers matched with one of the camera subscriber's two subscriptions
MaxPublishers == 2
\* messages per side and health checks run by the concurrent executor
MaxRaceArrivals == 2
MaxRaceChecks == 2

\* -------------------------------------------------------- program constants
\* A synchronizer queue one entry deeper.
QueueDepth_OneMore == 10 + 1

\* sync_(10): queue depth of the TimeSynchronizer.
QueueDepth == 10
\* threshold = 3 * both_received_
ThresholdFactor == 3
\* "Complain every 10s" / "In the last 10s": the window the warning speaks of,
\* counted in 1-second timer ticks.
WarnWindow == 10

Keys == 1..MaxKey
Sides == {"image", "info"}

VARIABLES
    \* CameraSubscriber::Impl
    unsubscribed_,      \* bool unsubscribed_
    image_received_,    \* int image_received_
    info_received_,     \* int info_received_
    both_received_,     \* int both_received_
    image_sub_open,     \* image_sub_ holds an open subscription
    info_sub_open,      \* info_sub_ holds an open subscription
    unsub_calls,        \* number of unsubscribe() calls made on the two subscriptions
    timer_active,       \* check_synced_timer_ exists and fires
    impl_alive,         \* the Impl object has not been destroyed
    tuples,             \* sync_: time key -> sides whose message is buffered
    \* observation of the last step
    lastEvent,          \* what the last step did and what it made observable
    \* history
    sinceWarn,          \* health checks run since the last warning (capped)
    carry,              \* the buffer held an unmatched entry at the last reset
    \* the host runtime and the object's construction
    image_pubs,         \* publishers the image subscription is matched with
    info_pubs,          \* publishers the camera_info subscription is matched with
    constructed,        \* "no": before the constructor; "yes"; "failed": it threw
    \* the two callbacks as threads of a concurrent executor
    msg_pc,             \* message callback: "idle", "load" or "store" of ++(*value)
    msg_todo,           \* counters the running message callback has yet to increment
    msg_reg,            \* value ++(*value) loaded and has not yet stored back
    chk_pc,             \* checkImagesSynchronized: "idle" or the access it makes next
    chk_both,           \* both_received_ as read for the threshold
    chk_image,          \* image_received_ as read for the comparison
    chk_info,           \* info_received_ as read for the comparison
    chk_warn,           \* the running health check decided to warn
    snap,               \* the three counters when the running health check began
    incs,               \* increments completed so far, per counter
    seen,               \* per counter, sum of the values finished health checks began with
    checks,             \* health checks finished so far
    \* SimplePublisherPlugin
    overrides,          \* the encode overloads the plugin subclass overrides
    simple_impl_,       \* simple_impl_ is non-null
    pub_,               \* simple_impl_->pub_: 0 is null, else the channel's id
    open_channels,      \* ids of the publishers that exist
    advertised,         \* number of create_publisher calls made so far
    published,          \* messages handed to a channel so far
    errors_logged,      \* RCLCPP_ERROR lines written so far
    pubEvent,           \* what the last plugin call did
    was_shutdown        \* history: shutdown() has been called on the plugin

camVars == <<unsubscribed_, image_received_, info_received_, both_received_,
             image_sub_open, info_sub_open, unsub_calls, timer_active,
             impl_alive, tuples, lastEvent, sinceWarn, carry,
             image_pubs, info_pubs, constructed,
             msg_pc, msg_todo, msg_reg, chk_pc, chk_both, chk_image,
             chk_info, chk_warn, snap, incs, seen, checks>>

raceVars == <<msg_pc, msg_todo, msg_reg, chk_pc, chk_both, chk_image,
              chk_info, chk_warn, snap, incs, seen, checks>>

hostVars == <<image_pubs, info_pubs>>

pubVars == <<overrides, simple_impl_, pub_, open_channels, advertised,
             published, errors_logged, pubEvent, was_shutdown>>

vars == <<camVars, pubVars>>

\* ------------------------------------------------------------ observations
\* op: the operation; key: time key of the arriving message (0 if none);
\* cb: number of invocations of the user pair callback made by the step;
\* warned: the step emitted the desynchronization warning;
\* image/info/both: the counters a health check evaluated;
\* ret: result of the validity check;
\* (for getNumPublishers, image and info are the two sides' publisher counts
\* at the call;)
\* again: a shutdown() call that found the subscriber already shut down;
\* n: the count getNumPublishers() returned; crashed: the call dereferenced a
\* released handle and the process died; threw: an exception reached the
\* caller; at: the step of the constructor that threw ("" if none); str: the
\* string an accessor returned.
Quiet(op) ==
    [op |-> op, key |-> 0, cb |-> 0, warned |-> FALSE,
     image |-> 0, info |-> 0, both |-> 0, ret |-> FALSE, again |-> FALSE,
     n |-> 0, crashed |-> FALSE, threw |-> FALSE, at |-> "", str |-> ""]

Max(a, b) == IF a > b THEN a ELSE b

Min(a, b) == IF a < b THEN a ELSE b

\* ------------------------------------------- alignment buffer (sync_)
\* Number of time keys with a buffered, unmatched message.
Size(t) == Cardinality({k \in DOMAIN t : t[k] # {}})

Oldest(t) ==
    CHOOSE k \in DOMAIN t : t[k] # {} /\ \A j \in DOMAIN t : t[j] # {} => k <= j

\* Drop the oldest unmatched entries while the queue depth is exceeded.
RECURSIVE Trim(_)
Trim(t) ==
    IF Size(t) > QueueDepth
    THEN Trim([t EXCEPT ![Oldest(t)] = {}])
    ELSE t

\* The buffer right after the message of `side` with time key k was stored.
Stored(t, side, k) == [t EXCEPT ![k] = @ \cup {side}]

\* add(): store the message, signal when both sides hold the time key and
\* remove the matched entry, then enforce the queue depth.
SyncAdd(t, side, k) ==
    LET s == Stored(t, side, k)
        full == s[k] = Sides
    IN  [signal |-> full,
         tuples |-> Trim(IF full THEN [s EXCEPT ![k] = {}] ELSE s)]

\* --------------------------------------------------------- CameraSubscriber
\* A value for each of the three counters.
NoCounts == [image |-> 0, info |-> 0, both |-> 0]

\* Impl::Impl: the member initialisers, for a synchronizer over the time
\* keys K.
ImplFields(K) ==
    /\ unsubscribed_ = FALSE
    /\ image_received_ = 0
    /\ info_received_ = 0
    /\ both_received_ = 0
    /\ unsub_calls = 0
    /\ tuples = [k \in K |-> {}]
    /\ sinceWarn = WarnWindow
    /\ carry = FALSE
    /\ msg_pc = "idle"
    /\ msg_todo = <<>>
    /\ msg_reg = 0
    /\ chk_pc = "idle"
    /\ chk_both = 0
    /\ chk_image = 0
    /\ chk_info = 0
    /\ chk_warn = FALSE
    /\ snap = NoCounts
    /\ incs = NoCounts
    /\ seen = NoCounts
    /\ checks = 0

\* State after CameraSubscriber::CameraSubscriber -> Impl::Impl, initialise,
\* with no publisher on either topic.
CamStart(K) ==
    /\ ImplFields(K)
    /\ image_sub_open = TRUE
    /\ info_sub_open = TRUE
    /\ timer_active = TRUE
    /\ impl_alive = TRUE
    /\ lastEvent = Quiet("init")
    /\ image_pubs = 0
    /\ info_pubs = 0
    /\ constructed = "yes"

CamInit == CamStart(Keys)

\* ImageArrival with the user callback bound to image_sub_ instead of sync_:
\* it runs on every image.
ImageArrival_EveryImage(k) ==
    /\ impl_alive
    /\ image_sub_open
    /\ image_received_ < MaxImage
    /\ LET r == SyncAdd(tuples, "image", k)
       IN  /\ tuples' = r.tuples
           /\ both_received_' = IF r.signal THEN both_received_ + 1 ELSE both_received_
           /\ lastEvent' = [Quiet("image") EXCEPT !.key = k, !.cb = 1]
    /\ image_received_' = image_received_ + 1
    /\ UNCHANGED <<unsubscribed_, info_received_, image_sub_open, info_sub_open,
                   unsub_calls, timer_active, impl_alive, sinceWarn, carry, pubVars, raceVars, hostVars,
                   constructed>>

\* ImageArrival with increment(&image_received_) registered on sync_, the
\* paired output, instead of image_sub_.
ImageArrival_CountsPairsOnly(k) ==
    /\ impl_alive
    /\ image_sub_open
    /\ image_received_ < MaxImage
    /\ LET r == SyncAdd(tuples, "image", k)
       IN  /\ tuples' = r.tuples
           /\ both_received_' = IF r.signal THEN both_received_ + 1 ELSE both_received_
           /\ image_received_' = IF r.signal THEN image_received_ + 1
                                             ELSE image_received_
           /\ lastEvent' = [Quiet("image") EXCEPT !.key = k,
                                 !.cb = IF r.signal THEN 1 ELSE 0]
    /\ UNCHANGED <<unsubscribed_, info_received_, image_sub_open, info_sub_open,
                   unsub_calls, timer_active, impl_alive, sinceWarn, carry, pubVars, raceVars,
                   hostVars, constructed>>

\* An image message with time key k is delivered by image_sub_: the
\* synchronizer input (connectInput) runs first and, on a match, calls the
\* user callback and increment(&both_received_); then
\* increment(&image_received_) runs.
ImageArrival(k) ==
    /\ impl_alive
    /\ image_sub_open
    /\ image_received_ < MaxImage
    /\ LET r == SyncAdd(tuples, "image", k)
       IN  /\ tuples' = r.tuples
           /\ both_received_' = IF r.signal THEN both_received_ + 1 ELSE both_received_
           /\ lastEvent' = [Quiet("image") EXCEPT !.key = k,
                                 !.cb = IF r.signal THEN 1 ELSE 0]
    /\ image_received_' = image_received_ + 1
    /\ UNCHANGED <<unsubscribed_, info_received_, image_sub_open, info_sub_open,
                   unsub_calls, timer_active, impl_alive, sinceWarn, carry, pubVars, raceVars, hostVars,
                   constructed>>

\* InfoArrival without increment(&info_received_) registered on info_sub_.
InfoArrival_Uncounted(k) ==
    /\ impl_alive
    /\ info_sub_open
    /\ info_received_ < MaxInfo
    /\ LET r == SyncAdd(tuples, "info", k)
       IN  /\ tuples' = r.tuples
           /\ both_received_' = IF r.signal THEN both_received_ + 1 ELSE both_received_
           /\ lastEvent' = [Quiet("info") EXCEPT !.key = k,
                                 !.cb = IF r.signal THEN 1 ELSE 0]
    /\ UNCHANGED <<unsubscribed_, image_received_, info_received_, image_sub_open,
                   info_sub_open, unsub_calls, timer_active, impl_alive,
                   sinceWarn, carry, pubVars, raceVars, hostVars,
                   constructed>>

\* A camera_info message with time key k is delivered by info_sub_.
InfoArrival(k) ==
    /\ impl_alive
    /\ info_sub_open
    /\ info_received_ < MaxInfo
    /\ LET r == SyncAdd(tuples, "info", k)
       IN  /\ tuples' = r.tuples
           /\ both_received_' = IF r.signal THEN both_received_ + 1 ELSE both_received_
           /\ lastEvent' = [Quiet("info") EXCEPT !.key = k,
                                 !.cb = IF r.signal THEN 1 ELSE 0]
    /\ info_received_' = info_received_ + 1
    /\ UNCHANGED <<unsubscribed_, image_received_, image_sub_open, info_sub_open,
                   unsub_calls, timer_active, impl_alive, sinceWarn, carry, pubVars, raceVars, hostVars,
                   constructed>>

\* ShouldWarn with >= in place of >.
ShouldWarn_AtLeast(img, inf, bth) ==
    LET threshold == ThresholdFactor * bth
    IN  img >= threshold \/ inf >= threshold

\* ShouldWarn with && in place of ||.
ShouldWarn_Both(img, inf, bth) ==
    LET threshold == ThresholdFactor * bth
    IN  img > threshold /\ inf > threshold

\* The condition under which checkImagesSynchronized warns.
ShouldWarn(img, inf, bth) ==
    LET threshold == ThresholdFactor * bth
    IN  img > threshold \/ inf > threshold

\* CheckImagesSynchronized with the reset moved inside the warning branch.
CheckImagesSynchronized_ResetOnWarn ==
    /\ timer_active
    /\ LET warn == ShouldWarn(image_received_, info_received_, both_received_)
       IN  /\ lastEvent' = [Quiet("check") EXCEPT !.warned = warn,
                                 !.image = image_received_,
                                 !.info = info_received_,
                                 !.both = both_received_]
           /\ sinceWarn' = IF warn THEN 0 ELSE Min(sinceWarn + 1, WarnWindow)
           /\ image_received_' = IF warn THEN 0 ELSE image_received_
           /\ info_received_' = IF warn THEN 0 ELSE info_received_
           /\ both_received_' = IF warn THEN 0 ELSE both_received_
    /\ carry' = (Size(tuples) > 0)
    /\ UNCHANGED <<unsubscribed_, image_sub_open, info_sub_open, unsub_calls,
                   timer_active, impl_alive, tuples, pubVars, raceVars, hostVars,
                   constructed>>

\* CheckImagesSynchronized that also empties the synchronizer's buffer when
\* it warns.
CheckImagesSynchronized_FlushOnWarn ==
    /\ timer_active
    /\ LET warn == ShouldWarn(image_received_, info_received_, both_received_)
       IN  /\ lastEvent' = [Quiet("check") EXCEPT !.warned = warn,
                                 !.image = image_received_,
                                 !.info = info_received_,
                                 !.both = both_received_]
           /\ sinceWarn' = IF warn THEN 0 ELSE Min(sinceWarn + 1, WarnWindow)
           /\ tuples' = IF warn THEN [k \in DOMAIN tuples |-> {}] ELSE tuples
    /\ image_received_' = 0
    /\ info_received_' = 0
    /\ both_received_' = 0
    /\ carry' = (Size(tuples) > 0)
    /\ UNCHANGED <<unsubscribed_, image_sub_open, info_sub_open, unsub_calls,
                   timer_active, impl_alive, pubVars, raceVars, hostVars, constructed>>

\* Timer callback, fired every second while check_synced_timer_ exists.
CheckImagesSynchronized ==
    /\ timer_active
    /\ LET warn == ShouldWarn(image_received_, info_received_, both_received_)
       IN  /\ lastEvent' = [Quiet("check") EXCEPT !.warned = warn,
                                 !.image = image_received_,
                                 !.info = info_received_,
                                 !.both = both_received_]
           /\ sinceWarn' = IF warn THEN 0 ELSE Min(sinceWarn + 1, WarnWindow)
    /\ image_received_' = 0
    /\ info_received_' = 0
    /\ both_received_' = 0
    /\ carry' = (Size(tuples) > 0)
    /\ UNCHANGED <<unsubscribed_, image_sub_open, info_sub_open, unsub_calls,
                   timer_active, impl_alive, tuples, pubVars, raceVars, hostVars,
                   constructed>>

\* ShutdownEffect without info_sub_.unsubscribe().
ShutdownEffect_ImageOnly ==
    IF ~unsubscribed_
    THEN /\ unsubscribed_' = TRUE
         /\ image_sub_open' = FALSE
         /\ info_sub_open' = info_sub_open
         /\ unsub_calls' = unsub_calls + 1
    ELSE UNCHANGED <<unsubscribed_, image_sub_open, info_sub_open, unsub_calls>>

\* ShutdownEffect that flips unsubscribed_ and re-opens on a second call.
ShutdownEffect_Toggle ==
    IF ~unsubscribed_
    THEN /\ unsubscribed_' = TRUE
         /\ image_sub_open' = FALSE
         /\ info_sub_open' = FALSE
         /\ unsub_calls' = unsub_calls + 2
    ELSE /\ unsubscribed_' = FALSE
         /\ image_sub_open' = TRUE
         /\ info_sub_open' = TRUE
         /\ UNCHANGED unsub_calls

\* ShutdownEffect without the if (!unsubscribed_) guard.
ShutdownEffect_Unguarded ==
    /\ unsubscribed_' = TRUE
    /\ image_sub_open' = FALSE
    /\ info_sub_open' = FALSE
    /\ unsub_calls' = unsub_calls + 2

\* Impl::shutdown as a state change of the subscription fields.
ShutdownEffect ==
    IF ~unsubscribed_
    THEN /\ unsubscribed_' = TRUE
         /\ image_sub_open' = FALSE
         /\ info_sub_open' = FALSE
         /\ unsub_calls' = unsub_calls + 2
    ELSE UNCHANGED <<unsubscribed_, image_sub_open, info_sub_open, unsub_calls>>

\* CameraSubscriber::shutdown()
Shutdown ==
    /\ impl_alive
    /\ ShutdownEffect
    /\ lastEvent' = [Quiet("shutdown") EXCEPT !.again = unsubscribed_]
    /\ UNCHANGED <<image_received_, info_received_, both_received_, timer_active,
                   impl_alive, tuples, sinceWarn, carry, pubVars, raceVars, hostVars,
                   constructed>>

\* Impl::isValid
IsValid == ~unsubscribed_

\* CameraSubscriber::operator void *()
OperatorVoidPtr ==
    /\ impl_alive
    /\ lastEvent' = [Quiet("valid") EXCEPT !.ret = IsValid]
    /\ UNCHANGED <<unsubscribed_, image_received_, info_received_, both_received_,
                   image_sub_open, info_sub_open, unsub_calls, timer_active,
                   impl_alive, tuples, sinceWarn, carry, pubVars, raceVars, hostVars,
                   constructed>>

\* Impl::~Impl: shutdown(), then the members (the timer among them) go away.
Destroy ==
    /\ impl_alive
    /\ ShutdownEffect
    /\ impl_alive' = FALSE
    /\ timer_active' = FALSE
    /\ lastEvent' = Quiet("destroy")
    /\ UNCHANGED <<image_received_, info_received_, both_received_, tuples,
                   sinceWarn, carry, pubVars, raceVars, hostVars,
                   constructed>>

\* A publisher joins or leaves the image topic or the camera_info topic; the
\* two counts move independently of each other and of the subscriber.
PublisherCounts == 0..MaxPublishers

PublishersChange(i, j) ==
    /\ <<i, j>> # <<image_pubs, info_pubs>>
    /\ image_pubs' = i
    /\ info_pubs' = j
    /\ UNCHANGED <<unsubscribed_, image_received_, info_received_, both_received_,
                   image_sub_open, info_sub_open, unsub_calls, timer_active,
                   impl_alive, tuples, lastEvent, sinceWarn, carry, constructed,
                   pubVars, raceVars>>

\* GetNumPublishers returning the image side's count alone.
GetNumPublishers_ImageOnly(out, crash) ==
    /\ impl_alive
    /\ ~unsubscribed_ => (~crash /\ out = image_pubs)
    /\ crash => out = 0
    /\ lastEvent' = [Quiet("getNumPublishers") EXCEPT !.n = out,
                                                      !.crashed = crash,
                                                      !.image = image_pubs,
                                                      !.info = info_pubs]
    /\ impl_alive' = (impl_alive /\ ~crash)
    /\ timer_active' = (timer_active /\ ~crash)
    /\ UNCHANGED <<unsubscribed_, image_received_, info_received_, both_received_,
                   image_sub_open, info_sub_open, unsub_calls, tuples, sinceWarn,
                   carry, constructed, hostVars, pubVars, raceVars>>

\* CameraSubscriber::getNumPublishers() returning out, or ending the process
\* (crash). While both
\* subscriptions exist the outcome is the larger of the two publisher counts.
\* After shutdown() the call still reads through
\* info_sub_.getSubscriber()-> and image_sub_.getSubscriber(), handles that
\* unsubscribe() has released: the behaviour is undefined, every outcome is
\* possible, the end of the process included.
GetNumPublishers(out, crash) ==
    /\ impl_alive
    /\ ~unsubscribed_ => (~crash /\ out = Max(image_pubs, info_pubs))
    /\ crash => out = 0
    /\ lastEvent' = [Quiet("getNumPublishers") EXCEPT !.n = out,
                                                      !.crashed = crash,
                                                      !.image = image_pubs,
                                                      !.info = info_pubs]
    /\ impl_alive' = (impl_alive /\ ~crash)
    /\ timer_active' = (timer_active /\ ~crash)
    /\ UNCHANGED <<unsubscribed_, image_received_, info_received_, both_received_,
                   image_sub_open, info_sub_open, unsub_calls, tuples, sinceWarn,
                   carry, constructed, hostVars, pubVars, raceVars>>

\* The names the accessors return: the image topic after expansion, the
\* camera_info topic next to it, the transport the subscriber was given.
ImageTopic == "/camera/image"
InfoTopic == "/camera/camera_info"
Transport == "raw"

\* CameraSubscriber::getTopic(): image_sub_.getTopic(), which asks the image
\* subscriber for the name it was given and reads through no handle of the
\* subscription.
CamGetTopic ==
    /\ impl_alive
    /\ lastEvent' = [Quiet("getTopic") EXCEPT !.str = ImageTopic]
    /\ UNCHANGED <<unsubscribed_, image_received_, info_received_, both_received_,
                   image_sub_open, info_sub_open, unsub_calls, timer_active,
                   impl_alive, tuples, sinceWarn, carry, constructed, hostVars,
                   raceVars, pubVars>>

\* CameraSubscriber::getTransport(): image_sub_.getTransport().
GetTransport ==
    /\ impl_alive
    /\ lastEvent' = [Quiet("getTransport") EXCEPT !.str = Transport]
    /\ UNCHANGED <<unsubscribed_, image_received_, info_received_, both_received_,
                   image_sub_open, info_sub_open, unsub_calls, timer_active,
                   impl_alive, tuples, sinceWarn, carry, constructed, hostVars,
                   raceVars, pubVars>>

\* CameraSubscriber::getInfoTopic() returning out, or ending the process
\* (crash): info_sub_.getSubscriber()->get_topic_name(). While the
\* subscription exists this is its topic. After shutdown() the handle
\* getSubscriber() returns has been released by unsubscribe() and -> is applied
\* to it all the same: the behaviour is undefined.
GetInfoTopic(out, crash) ==
    /\ impl_alive
    /\ ~unsubscribed_ => (~crash /\ out = InfoTopic)
    /\ crash => out = ""
    /\ lastEvent' = [Quiet("getInfoTopic") EXCEPT !.str = out,
                                                  !.crashed = crash]
    /\ impl_alive' = (impl_alive /\ ~crash)
    /\ timer_active' = (timer_active /\ ~crash)
    /\ UNCHANGED <<unsubscribed_, image_received_, info_received_, both_received_,
                   image_sub_open, info_sub_open, unsub_calls, tuples, sinceWarn,
                   carry, constructed, hostVars, raceVars, pubVars>>

\* The steps of the constructor that can throw, in program order: "topic"
\* (expand_topic_or_service_name, getCameraInfoTopic), "image"
\* (image_sub_.subscribe, which loads the transport plugin), "info"
\* (info_sub_.subscribe), "timer" (create_wall_timer); "none": no step throws.
ConstructSteps == <<"topic", "image", "info", "timer", "none">>

StepIndex(f) == CHOOSE i \in DOMAIN ConstructSteps : ConstructSteps[i] = f

\* Construct without the destruction of impl_ when the constructor throws:
\* what initialise() had opened stays open on a live Impl.
Construct_NoUnwind(fail) ==
    /\ constructed = "no"
    /\ LET ok == fail = "none"
           imageOpened == StepIndex(fail) > StepIndex("image")
           infoOpened == StepIndex(fail) > StepIndex("info")
       IN  /\ constructed' = IF ok THEN "yes" ELSE "failed"
           /\ lastEvent' = IF ok THEN Quiet("construct")
                           ELSE [Quiet("construct") EXCEPT !.threw = TRUE,
                                                           !.at = fail]
           /\ impl_alive' = TRUE
           /\ timer_active' = ok
           /\ image_sub_open' = imageOpened
           /\ info_sub_open' = infoOpened
           /\ UNCHANGED <<unsubscribed_, unsub_calls>>
    /\ UNCHANGED <<image_received_, info_received_, both_received_, tuples,
                   sinceWarn, carry, hostVars, pubVars, raceVars>>

\* CameraSubscriber::CameraSubscriber: impl_ is made, then initialise() runs
\* up to the step that throws. An exception leaves the constructor; the
\* already constructed member impl_ is destroyed on the way out, which runs
\* ~Impl and so shutdown() on whatever had been opened.
Construct(fail) ==
    /\ constructed = "no"
    /\ LET ok == fail = "none"
       IN  /\ constructed' = IF ok THEN "yes" ELSE "failed"
           /\ lastEvent' = IF ok THEN Quiet("construct")
                           ELSE [Quiet("construct") EXCEPT !.threw = TRUE,
                                                           !.at = fail]
           /\ impl_alive' = ok
           /\ timer_active' = ok
           /\ image_sub_open' = ok
           /\ info_sub_open' = ok
           /\ unsubscribed_' = ~ok
           /\ unsub_calls' = IF ok THEN unsub_calls ELSE unsub_calls + 2
    /\ UNCHANGED <<image_received_, info_received_, both_received_, tuples,
                   sinceWarn, carry, hostVars, pubVars, raceVars>>

\* ------------------------------------------- callbacks run concurrently
\* The callbacks of one CameraSubscriber on two threads: one runs the message
\* callbacks, the other the timer callback. The counters are plain ints and
\* neither increment() nor checkImagesSynchronized() takes a lock, so a step
\* of one thread is one access to a counter and the steps interleave freely.
CounterValue(c) ==
    CASE c = "image" -> image_received_
      [] c = "info" -> info_received_
      [] c = "both" -> both_received_

\* The store of one counter, the other two untouched.
StoreCounter(c, v) ==
    /\ image_received_' = IF c = "image" THEN v ELSE image_received_
    /\ info_received_' = IF c = "info" THEN v ELSE info_received_
    /\ both_received_' = IF c = "both" THEN v ELSE both_received_

\* A message of one side with time key k reaches its subscription: the
\* synchronizer input runs, and the callbacks that will increment are lined
\* up in registration order (on a match the one on sync_, then the one on the
\* subscription).
RaceDeliver(side, k) ==
    /\ impl_alive
    /\ IF side = "image" THEN image_sub_open ELSE info_sub_open
    /\ msg_pc = "idle"
    /\ incs[side] < MaxRaceArrivals
    /\ LET r == SyncAdd(tuples, side, k)
       IN  /\ tuples' = r.tuples
           /\ msg_todo' = IF r.signal THEN <<"both", side>> ELSE <<side>>
           /\ lastEvent' = [Quiet(side) EXCEPT !.key = k,
                                 !.cb = IF r.signal THEN 1 ELSE 0]
    /\ msg_pc' = "load"
    /\ UNCHANGED <<unsubscribed_, image_received_, info_received_, both_received_,
                   image_sub_open, info_sub_open, unsub_calls, timer_active,
                   impl_alive, sinceWarn, carry, hostVars, constructed, msg_reg,
                   chk_pc, chk_both, chk_image, chk_info, chk_warn, snap, incs,
                   seen, checks, pubVars>>

\* increment(): ++(*value) reads the counter ...
RaceLoad ==
    /\ msg_pc = "load"
    /\ msg_reg' = CounterValue(Head(msg_todo))
    /\ msg_pc' = "store"
    /\ UNCHANGED <<unsubscribed_, image_received_, info_received_, both_received_,
                   image_sub_open, info_sub_open, unsub_calls, timer_active,
                   impl_alive, tuples, lastEvent, sinceWarn, carry, hostVars,
                   constructed, msg_todo, chk_pc, chk_both, chk_image, chk_info,
                   chk_warn, snap, incs, seen, checks, pubVars>>

\* ... and writes back the value it read plus one.
RaceStore ==
    /\ msg_pc = "store"
    /\ StoreCounter(Head(msg_todo), msg_reg + 1)
    /\ incs' = [incs EXCEPT ![Head(msg_todo)] = @ + 1]
    /\ msg_todo' = Tail(msg_todo)
    /\ msg_pc' = IF Tail(msg_todo) = <<>> THEN "idle" ELSE "load"
    /\ UNCHANGED <<unsubscribed_, image_sub_open, info_sub_open, unsub_calls,
                   timer_active, impl_alive, tuples, lastEvent, sinceWarn, carry,
                   hostVars, constructed, msg_reg, chk_pc, chk_both, chk_image,
                   chk_info, chk_warn, snap, seen, checks, pubVars>>

\* checkImagesSynchronized, line 94: threshold = 3 * both_received_.
RaceCheckBegin ==
    /\ timer_active
    /\ chk_pc = "idle"
    /\ checks < MaxRaceChecks
    /\ chk_both' = both_received_
    /\ snap' = [image |-> image_received_, info |-> info_received_,
                both |-> both_received_]
    /\ chk_image' = 0
    /\ chk_info' = 0
    /\ chk_warn' = FALSE
    /\ chk_pc' = "image"
    /\ UNCHANGED <<unsubscribed_, image_received_, info_received_, both_received_,
                   image_sub_open, info_sub_open, unsub_calls, timer_active,
                   impl_alive, tuples, lastEvent, sinceWarn, carry, hostVars,
                   constructed, msg_pc, msg_todo, msg_reg, incs, seen, checks,
                   pubVars>>

\* Line 95, left operand: image_received_ > threshold; || reads
\* info_received_ only when this is false.
RaceCheckImage ==
    /\ chk_pc = "image"
    /\ chk_image' = image_received_
    /\ chk_warn' = (image_received_ > ThresholdFactor * chk_both)
    /\ chk_pc' = IF image_received_ > ThresholdFactor * chk_both THEN "reset"
                                                                  ELSE "info"
    /\ UNCHANGED <<unsubscribed_, image_received_, info_received_, both_received_,
                   image_sub_open, info_sub_open, unsub_calls, timer_active,
                   impl_alive, tuples, lastEvent, sinceWarn, carry, hostVars,
                   constructed, msg_pc, msg_todo, msg_reg, chk_both, chk_info,
                   snap, incs, seen, checks, pubVars>>

\* Line 95, right operand: info_received_ > threshold.
RaceCheckInfo ==
    /\ chk_pc = "info"
    /\ chk_info' = info_received_
    /\ chk_warn' = (info_received_ > ThresholdFactor * chk_both)
    /\ chk_pc' = "reset"
    /\ UNCHANGED <<unsubscribed_, image_received_, info_received_, both_received_,
                   image_sub_open, info_sub_open, unsub_calls, timer_active,
                   impl_alive, tuples, lastEvent, sinceWarn, carry, hostVars,
                   constructed, msg_pc, msg_todo, msg_reg, chk_both, chk_image,
                   snap, incs, seen, checks, pubVars>>

\* Lines 96-108: the warning if decided, then
\* image_received_ = info_received_ = both_received_ = 0.
RaceCheckReset ==
    /\ chk_pc = "reset"
    /\ image_received_' = 0
    /\ info_received_' = 0
    /\ both_received_' = 0
    /\ lastEvent' = [Quiet("check") EXCEPT !.warned = chk_warn,
                          !.image = chk_image, !.info = chk_info,
                          !.both = chk_both]
    /\ sinceWarn' = IF chk_warn THEN 0 ELSE Min(sinceWarn + 1, WarnWindow)
    /\ carry' = (Size(tuples) > 0)
    /\ seen' = [c \in DOMAIN seen |-> seen[c] + snap[c]]
    /\ checks' = checks + 1
    /\ chk_pc' = "idle"
    /\ UNCHANGED <<unsubscribed_, image_sub_open, info_sub_open, unsub_calls,
                   timer_active, impl_alive, tuples, hostVars, constructed,
                   msg_pc, msg_todo, msg_reg, chk_both, chk_image, chk_info,
                   chk_warn, snap, incs, pubVars>>

\* ---------------------------------------------------- SimplePublisherPlugin
\* The virtual encode overloads a subclass may override:
\*   "fn"    publish(const Image &, const PublishFn &)
\*   "pub"   publish(const Image &, const PublisherT &)
\*   "owned" publish(Image::UniquePtr, const PublisherT &)
Overloads == {"fn", "pub", "owned"}

\* What a subclass may override: the encode overloads and
\* supportsUniquePtrPub() ("supports": overridden to return true; the
\* PublisherPlugin default returns false).
Virtuals == Overloads \cup {"supports"}

\* PublisherPlugin::supportsUniquePtrPub()
SupportsUniquePtrPub == "supports" \in overrides

\* What a plugin call made observable. logged: RCLCPP_ERROR was written;
\* threw: an exception reached the caller; encodes: encode overloads entered;
\* sent: messages handed to the channel; invalid: the invalid-plugin branch
\* was taken; again: shutdown() found simple_impl_ already null; ret: value an
\* accessor returned (0 is the empty topic); ub: the call dereferenced a null
\* pub_.
PubQuiet(op) ==
    [op |-> op, logged |-> FALSE, threw |-> FALSE, encodes |-> 0, sent |-> 0,
     invalid |-> FALSE, again |-> FALSE, ret |-> 0, ub |-> FALSE]

\* A freshly constructed plugin of a subclass overriding the overloads o.
PubStart(o) ==
    /\ overrides = o
    /\ simple_impl_ = FALSE
    /\ pub_ = 0
    /\ open_channels = {}
    /\ advertised = 0
    /\ published = 0
    /\ errors_logged = 0
    /\ pubEvent = PubQuiet("init")
    /\ was_shutdown = FALSE

\* Invalid that tests simple_impl_ only, not simple_impl_->pub_.
Invalid_ImplOnly == ~simple_impl_

\* The guard of publish() and publishUniquePtr().
Invalid == ~simple_impl_ \/ pub_ = 0

\* The invalid-plugin branch: RCLCPP_ERROR and return.
LogInvalid(op) ==
    /\ errors_logged < MaxErrors
    /\ errors_logged' = errors_logged + 1
    /\ pubEvent' = [PubQuiet(op) EXCEPT !.logged = TRUE, !.invalid = TRUE]
    /\ UNCHANGED <<overrides, simple_impl_, pub_, open_channels, advertised, published>>

\* An overridden encode overload encodes the image and publishes it once.
Encoded(op, n) ==
    /\ published < MaxPublished
    /\ published' = published + 1
    /\ pubEvent' = [PubQuiet(op) EXCEPT !.encodes = n, !.sent = 1]
    /\ UNCHANGED <<overrides, simple_impl_, pub_, open_channels, advertised, errors_logged>>

\* NotImplemented that logs the error and returns instead of throwing.
NotImplemented_Logged(op, n) ==
    /\ pubEvent' = [PubQuiet(op) EXCEPT !.encodes = n, !.logged = TRUE]
    /\ UNCHANGED <<overrides, simple_impl_, pub_, open_channels, advertised,
                   published, errors_logged>>

\* A default encode overload that is not implemented throws std::logic_error.
NotImplemented(op, n) ==
    /\ pubEvent' = [PubQuiet(op) EXCEPT !.encodes = n, !.threw = TRUE]
    /\ UNCHANGED <<overrides, simple_impl_, pub_, open_channels, advertised,
                   published, errors_logged>>

\* PublishWithPublisher whose default throws instead of forwarding to
\* publish(const Image &, const PublishFn &).
PublishWithPublisher_NoFallback(op) ==
    IF "pub" \in overrides THEN Encoded(op, 1)
    ELSE NotImplemented(op, 1)

\* publish(const Image &, const PublisherT &): the subclass's override, or the
\* default, which forwards to publish(const Image &, const PublishFn &).
PublishWithPublisher(op) ==
    IF "pub" \in overrides THEN Encoded(op, 1)
    ELSE IF "fn" \in overrides THEN Encoded(op, 2)
    ELSE NotImplemented(op, 2)

\* PublishOwnedWithPublisher whose default has an empty body.
PublishOwnedWithPublisher_Drop(op) ==
    IF "owned" \in overrides THEN Encoded(op, 1)
    ELSE /\ pubEvent' = [PubQuiet(op) EXCEPT !.encodes = 1]
         /\ UNCHANGED <<overrides, simple_impl_, pub_, open_channels, advertised,
                        published, errors_logged>>

\* publish(Image::UniquePtr, const PublisherT &): the subclass's override, or
\* the default, which throws.
PublishOwnedWithPublisher(op) ==
    IF "owned" \in overrides THEN Encoded(op, 1)
    ELSE NotImplemented(op, 1)

\* publish(const sensor_msgs::msg::Image & message)
Publish ==
    /\ IF Invalid THEN LogInvalid("publish") ELSE PublishWithPublisher("publish")
    /\ UNCHANGED <<camVars, was_shutdown>>

\* publishUniquePtr(sensor_msgs::msg::Image::UniquePtr message)
PublishUniquePtr ==
    /\ IF Invalid THEN LogInvalid("publishUniquePtr")
       ELSE PublishOwnedWithPublisher("publishUniquePtr")
    /\ UNCHANGED <<camVars, was_shutdown>>

\* AdvertiseImpl that leaves the publisher of the previous advertise open
\* next to the new one.
AdvertiseImpl_KeepOld(ok) ==
    /\ advertised < MaxAdvertise
    /\ advertised' = advertised + 1
    /\ simple_impl_' = TRUE
    /\ pub_' = IF ok THEN advertised + 1 ELSE 0
    /\ open_channels' = IF ok THEN open_channels \cup {advertised + 1}
                               ELSE open_channels
    /\ pubEvent' = [PubQuiet("advertise") EXCEPT !.threw = ~ok]
    /\ UNCHANGED <<overrides, published, errors_logged>>
    /\ UNCHANGED <<camVars, was_shutdown>>

\* advertiseImpl: a new impl replaces the old one (whose publisher goes away
\* with it), then create_publisher either returns the channel or throws.
AdvertiseImpl(ok) ==
    /\ advertised < MaxAdvertise
    /\ advertised' = advertised + 1
    /\ simple_impl_' = TRUE
    /\ pub_' = IF ok THEN advertised + 1 ELSE 0
    /\ open_channels' = IF ok THEN {advertised + 1} ELSE {}
    /\ pubEvent' = [PubQuiet("advertise") EXCEPT !.threw = ~ok]
    /\ UNCHANGED <<overrides, published, errors_logged>>
    /\ UNCHANGED <<camVars, was_shutdown>>

\* PluginShutdown that releases the publisher but keeps the impl.
PluginShutdown_KeepImpl ==
    /\ simple_impl_' = simple_impl_
    /\ pub_' = 0
    /\ open_channels' = {}
    /\ pubEvent' = [PubQuiet("shutdown") EXCEPT !.again = ~simple_impl_]
    /\ UNCHANGED <<overrides, advertised, published, errors_logged>>
    /\ was_shutdown' = TRUE
    /\ UNCHANGED camVars

\* SimplePublisherPlugin::shutdown(): simple_impl_.reset()
PluginShutdown ==
    /\ simple_impl_' = FALSE
    /\ pub_' = 0
    /\ open_channels' = {}
    /\ pubEvent' = [PubQuiet("shutdown") EXCEPT !.again = ~simple_impl_]
    /\ UNCHANGED <<overrides, advertised, published, errors_logged>>
    /\ was_shutdown' = TRUE
    /\ UNCHANGED camVars

\* The subscription counts get_subscription_count() may report.
SubscriberCounts == 0..MaxSubscribers

\* getNumSubscribers(): 0 without an impl, else pub_->get_subscription_count(),
\* which reports n; with an impl whose pub_ is null the call dereferences a
\* null pointer and any value (or none) may come back.
GetNumSubscribers(n) ==
    /\ pubEvent' = IF ~simple_impl_ THEN PubQuiet("getNumSubscribers")
                   ELSE [PubQuiet("getNumSubscribers") EXCEPT
                            !.ret = n, !.ub = (pub_ = 0)]
    /\ UNCHANGED <<overrides, simple_impl_, pub_, open_channels, advertised,
                   published, errors_logged>>
    /\ UNCHANGED <<camVars, was_shutdown>>

\* getTopic(): empty without an impl, else pub_->get_topic_name(), the topic
\* of the channel; with an impl whose pub_ is null the call dereferences a
\* null pointer and any value (or none) may come back.
GetTopic(n) ==
    /\ pubEvent' = IF ~simple_impl_ THEN PubQuiet("getTopic")
                   ELSE IF pub_ = 0
                   THEN [PubQuiet("getTopic") EXCEPT !.ret = n, !.ub = TRUE]
                   ELSE [PubQuiet("getTopic") EXCEPT !.ret = pub_]
    /\ UNCHANGED <<overrides, simple_impl_, pub_, open_channels, advertised,
                   published, errors_logged>>
    /\ UNCHANGED <<camVars, was_shutdown>>

\* -------------------------------------------------------------- behaviours
\* The CameraSubscriber alone; the plugin stays as constructed.
Init == CamInit /\ PubStart({})

Next ==
    \/ \E k \in Keys : ImageArrival(k)
    \/ \E k \in Keys : InfoArrival(k)
    \/ CheckImagesSynchronized
    \/ Shutdown
    \/ OperatorVoidPtr
    \/ Destroy

Spec == Init /\ [][Next]_vars

\* The SimplePublisherPlugin alone, for every subclass shape; the
\* CameraSubscriber stays as constructed.
InitPub == CamInit /\ \E o \in SUBSET Virtuals : PubStart(o)

NextPub ==
    \/ Publish
    \/ PublishUniquePtr
    \/ \E ok \in BOOLEAN : AdvertiseImpl(ok)
    \/ PluginShutdown
    \/ \E n \in SubscriberCounts : GetNumSubscribers(n)
    \/ \E n \in SubscriberCounts : GetTopic(n)

SpecPub == InitPub /\ [][NextPub]_vars

\* The camera subscriber's accessors and lifecycle, with publishers coming
\* and going on both topics and no message traffic.
NextAccess ==
    \/ \E i, j \in PublisherCounts : PublishersChange(i, j)
    \/ \E out \in PublisherCounts, crash \in BOOLEAN : GetNumPublishers(out, crash)
    \/ \E out \in {"", InfoTopic}, crash \in BOOLEAN : GetInfoTopic(out, crash)
    \/ CamGetTopic
    \/ GetTransport
    \/ Shutdown
    \/ OperatorVoidPtr
    \/ Destroy

SpecAccess == Init /\ [][NextAccess]_vars

\* Message traffic alone, over enough time keys to fill the synchronizer's
\* queue and overflow it: the images arrive in the order of their keys, none
\* missing, and the camera_info messages in any order with any key.
QueueKeys == 1..(QueueDepth + 2)

InitQueue == CamStart(QueueKeys) /\ PubStart({})

NextQueue ==
    \/ /\ image_received_ + 1 \in QueueKeys
       /\ ImageArrival(image_received_ + 1)
    \/ \E k \in QueueKeys : InfoArrival(k)

SpecQueue == InitQueue /\ [][NextQueue]_vars

\* The message callbacks and the timer callback of one camera subscriber run
\* by an executor with more than one thread.
NextRace ==
    \/ \E s \in Sides, k \in Keys : RaceDeliver(s, k)
    \/ RaceLoad
    \/ RaceStore
    \/ RaceCheckBegin
    \/ RaceCheckImage
    \/ RaceCheckInfo
    \/ RaceCheckReset

SpecRace == Init /\ [][NextRace]_vars

\* The camera subscriber from before its constructor runs.
InitCtor ==
    /\ ImplFields(Keys)
    /\ image_sub_open = FALSE
    /\ info_sub_open = FALSE
    /\ timer_active = FALSE
    /\ impl_alive = FALSE
    /\ lastEvent = Quiet("init")
    /\ image_pubs = 0
    /\ info_pubs = 0
    /\ constructed = "no"
    /\ PubStart({})

NextCtor ==
    \/ \E f \in {ConstructSteps[i] : i \in DOMAIN ConstructSteps} : Construct(f)
    \/ Next

SpecCtor == InitCtor /\ [][NextCtor]_vars

\* ------------------------------------------------------------------ claims
\* The program state of a CameraSubscriber (everything but the observations).
camState == <<unsubscribed_, image_received_, info_received_, both_received_,
              image_sub_open, info_sub_open, unsub_calls, timer_active,
              impl_alive, tuples>>

\* C1: on an arrival the pair callback is invoked for the message's time key
\* if and only if the buffer, with that message stored, holds the key from
\* both sides; it is invoked once, the matched entry leaves the buffer, and no
\* other step invokes it.
C1_PairIffBothSides ==
    [][ /\ lastEvent'.op \in Sides =>
            LET k == lastEvent'.key
                held == Stored(tuples, lastEvent'.op, k)[k] = Sides
            IN  /\ lastEvent'.cb = (IF held THEN 1 ELSE 0)
                /\ held => tuples'[k] = {}
        /\ lastEvent'.op \notin Sides => lastEvent'.cb = 0 ]_vars

\* An image completed a pair with a buffered metadata message and the pair
\* was delivered, the second pair of its window.
C1_Witness ==
    /\ lastEvent.op = "image"
    /\ lastEvent.cb = 1
    /\ both_received_ = 2

\* C2: after shutdown() no step invokes the pair callback, increments a
\* counter or emits the desynchronization warning.
C2_SilentAfterShutdown ==
    [][ unsubscribed_ =>
          /\ lastEvent'.cb = 0
          /\ image_received_' <= image_received_
          /\ info_received_' <= info_received_
          /\ both_received_' <= both_received_
          /\ ~lastEvent'.warned ]_vars

\* C3: in the Shutdown state the health-check timer is cancelled and
\* checkImagesSynchronized does not run again.
C3_TimerStopsOnShutdown ==
    [][ unsubscribed_ => ~timer_active /\ lastEvent'.op # "check" ]_vars

\* C4: once shutdown() has been called the subscriber stays shut down: the
\* validity check reports invalid and both subscriptions stay closed after
\* every later step.
C4_ShutdownOneWay ==
    [][ /\ unsubscribed_ => unsubscribed_'
        /\ unsubscribed_' =>
             /\ ~image_sub_open'
             /\ ~info_sub_open'
             /\ lastEvent'.op = "valid" => ~lastEvent'.ret ]_vars

\* The validity check was made on a subscriber that had been shut down and
\* reported invalid.
C4_Witness ==
    /\ unsubscribed_
    /\ lastEvent.op = "valid"
    /\ ~lastEvent.ret
    /\ ~image_sub_open
    /\ ~info_sub_open

\* C5: a shutdown() call on a subscriber that is already shut down makes no
\* unsubscribe call and changes no state.
C5_ShutdownIdempotent ==
    [][ (lastEvent'.op = "shutdown" /\ unsubscribed_) =>
          /\ UNCHANGED camState
          /\ unsub_calls' = 2 ]_vars

\* A second shutdown() call returned.
C5_Witness ==
    /\ lastEvent.op = "shutdown"
    /\ lastEvent.again
    /\ unsub_calls = 2

\* C6 (as claimed): both_received_ <= min(image_received_, info_received_) in
\* every reachable state.
C6_PairsWithinCounts == both_received_ <= Min(image_received_, info_received_)

\* C6 (amended): both_received_ <= min(image_received_, info_received_) in
\* every state whose window began with an empty alignment buffer.
C6_PairsWithinCountsFreshWindow ==
    ~carry => both_received_ <= Min(image_received_, info_received_)

\* A pair was matched in a window that followed a health check and began with
\* an empty buffer.
C6_Witness ==
    /\ ~carry
    /\ sinceWarn < WarnWindow
    /\ lastEvent.cb = 1
    /\ both_received_ >= 1

\* C7: right after every health check the three counters are 0, warning or
\* not.
C7_ResetAfterCheck ==
    lastEvent.op = "check" =>
        /\ image_received_ = 0
        /\ info_received_ = 0
        /\ both_received_ = 0

\* A health check that did not warn has just reset counters that were not 0.
C7_Witness ==
    /\ lastEvent.op = "check"
    /\ ~lastEvent.warned
    /\ lastEvent.both > 0
    /\ image_received_ = 0

\* C8: a health check warns if and only if image_received_ > 3 * both_received_
\* or info_received_ > 3 * both_received_ when it evaluates; 10 images, 1
\* metadata and at most 1 pair warn, 4 images, 4 metadata and 4 pairs do not.
C8_WarnIffOverThreshold ==
    lastEvent.op = "check" =>
        /\ lastEvent.warned <=>
             (lastEvent.image > 3 * lastEvent.both \/ lastEvent.info > 3 * lastEvent.both)
        /\ (lastEvent.image = 10 /\ lastEvent.info = 1 /\ lastEvent.both <= 1)
             => lastEvent.warned
        /\ (lastEvent.image = 4 /\ lastEvent.info = 4 /\ lastEvent.both = 4)
             => ~lastEvent.warned

\* A window of 10 images, 1 metadata message and 1 pair was evaluated and warned.
C8_Witness ==
    /\ lastEvent.op = "check"
    /\ lastEvent.image = 10
    /\ lastEvent.info = 1
    /\ lastEvent.both = 1
    /\ lastEvent.warned

\* A window of 4 images, 4 metadata messages and 4 pairs was evaluated and did
\* not warn.
C8_BalancedWindow ==
    /\ lastEvent.op = "check"
    /\ lastEvent.image = 4
    /\ lastEvent.info = 4
    /\ lastEvent.both = 4
    /\ ~lastEvent.warned

\* C9: a health check emits a warning only if none of the WarnWindow - 1
\* health checks before it did (at most one warning in any 10 consecutive
\* ticks).
C9_WarnRateLimited ==
    [][ (lastEvent'.op = "check" /\ lastEvent'.warned) =>
          sinceWarn >= WarnWindow - 1 ]_vars

\* C10: publish() or publishUniquePtr() on a plugin without an active channel
\* logs one error and does nothing else: nothing is sent, nothing is thrown,
\* no encode overload runs and the plugin state is unchanged.
C10_PublishWithoutChannelIsNoOp ==
    [][ (pubEvent'.op \in {"publish", "publishUniquePtr"}
            /\ (~simple_impl_ \/ pub_ = 0)) =>
          /\ pubEvent'.logged
          /\ errors_logged' = errors_logged + 1
          /\ pubEvent'.sent = 0
          /\ pubEvent'.encodes = 0
          /\ ~pubEvent'.threw
          /\ UNCHANGED <<overrides, simple_impl_, pub_, open_channels,
                         advertised, published>> ]_vars

\* publishUniquePtr() was called on a plugin whose advertise failed (impl set,
\* no publisher) and logged the error.
C10_Witness ==
    /\ pubEvent.op = "publishUniquePtr"
    /\ pubEvent.invalid
    /\ pubEvent.logged
    /\ simple_impl_
    /\ pub_ = 0

\* The state of a SimplePublisherPlugin (everything but the observation).
pubState == <<overrides, simple_impl_, pub_, open_channels, advertised,
              published, errors_logged>>

\* C11 (as claimed): publishUniquePtr() on a plugin whose
\* supportsUniquePtrPub() is false, in every plugin state, either publishes
\* the image or throws std::logic_error.
C11_OwnedPublishesOrThrows ==
    (pubEvent.op = "publishUniquePtr" /\ ~SupportsUniquePtrPub) =>
        (pubEvent.sent = 1 \/ pubEvent.threw)

\* C11 (amended): publishUniquePtr() on a plugin whose supportsUniquePtrPub()
\* is false either publishes the image, throws std::logic_error, or (no
\* active channel) logs the invalid-plugin error; exactly one of the three.
C11_OwnedNeverSilent ==
    (pubEvent.op = "publishUniquePtr" /\ ~SupportsUniquePtrPub) =>
        /\ pubEvent.sent = 1 \/ pubEvent.threw \/ pubEvent.logged
        /\ pubEvent.logged <=> pubEvent.invalid
        /\ pubEvent.logged => (pubEvent.sent = 0 /\ ~pubEvent.threw)
        /\ pubEvent.threw => pubEvent.sent = 0

\* publishUniquePtr() on an advertised plugin that overrides nothing threw.
C11_Witness ==
    /\ pubEvent.op = "publishUniquePtr"
    /\ overrides = {}
    /\ pub_ # 0
    /\ pubEvent.threw

\* C12 (as claimed): on an advertised plugin that implements a copy-based
\* encode overload and not the owned one, publishUniquePtr() publishes the
\* image.
C12_OwnedFallsBackToCopy ==
    (/\ pubEvent.op = "publishUniquePtr"
     /\ ~pubEvent.invalid
     /\ "owned" \notin overrides
     /\ overrides \cap {"fn", "pub"} # {}) => pubEvent.sent = 1

\* C12 (amended): the fallback by a transient publish function is the one of
\* publish(Image, publisher) to publish(Image, publish_fn): a plugin that
\* implements only publish(Image, publish_fn) publishes on publish(image)
\* through both overloads; the owned overload, when not overridden, throws
\* and publishes nothing.
C12_CopyFallsBackOwnedThrows ==
    /\ (/\ pubEvent.op = "publish"
        /\ ~pubEvent.invalid
        /\ "pub" \notin overrides
        /\ "fn" \in overrides) =>
            (pubEvent.sent = 1 /\ pubEvent.encodes = 2 /\ ~pubEvent.threw)
    /\ (/\ pubEvent.op = "publishUniquePtr"
        /\ ~pubEvent.invalid
        /\ "owned" \notin overrides) =>
            (pubEvent.threw /\ pubEvent.sent = 0)

\* publish(image) on an advertised plugin that implements only
\* publish(Image, publish_fn) published through the fallback.
C12_Witness ==
    /\ pubEvent.op = "publish"
    /\ overrides = {"fn"}
    /\ pubEvent.encodes = 2
    /\ pubEvent.sent = 1

\* C13: publish(image) on an advertised plugin that overrides neither
\* copy-based encode overload goes through both default overloads and the
\* std::logic_error reaches the caller: nothing is logged, nothing is sent.
C13_UnimplementedPropagates ==
    (/\ pubEvent.op = "publish"
     /\ ~pubEvent.invalid
     /\ overrides \cap {"fn", "pub"} = {}) =>
        /\ pubEvent.threw
        /\ pubEvent.encodes = 2
        /\ ~pubEvent.logged
        /\ pubEvent.sent = 0

\* publish(image) on an advertised plugin that overrides only the owned
\* overload threw.
C13_Witness ==
    /\ pubEvent.op = "publish"
    /\ overrides = {"owned"}
    /\ pub_ # 0
    /\ pubEvent.threw
    /\ published = 0

\* C14: shutdown() never throws and leaves the plugin without impl and
\* channel; called on a plugin that is already shut down (or was never
\* advertised) it changes nothing; getNumSubscribers() then returns 0 and
\* getTopic() the empty string.
C14_PluginShutdownIdempotent ==
    [][ /\ pubEvent'.op = "shutdown" =>
            /\ ~pubEvent'.threw
            /\ ~simple_impl_'
            /\ pub_' = 0
            /\ open_channels' = {}
            /\ ~simple_impl_ => UNCHANGED pubState
        /\ (pubEvent'.op \in {"getNumSubscribers", "getTopic"} /\ ~simple_impl_) =>
            (pubEvent'.ret = 0 /\ ~pubEvent'.ub /\ UNCHANGED pubState) ]_vars

\* shutdown() was called on a plugin that had been advertised and shut down.
C14_Witness ==
    /\ pubEvent.op = "shutdown"
    /\ pubEvent.again
    /\ advertised > 0
    /\ ~simple_impl_

\* C15: getNumPublishers() on a subscriber whose two subscriptions exist
\* returns the larger of the image side's and the camera_info side's publisher
\* counts, for every combination of the two: at least each of them, equal to
\* one of them (image 2, info 0 gives 2; image 0, info 2 gives 2), and the
\* call never ends the process.
C15_NumPublishersIsMax ==
    (lastEvent.op = "getNumPublishers" /\ ~unsubscribed_) =>
        /\ ~lastEvent.crashed
        /\ lastEvent.n >= lastEvent.image
        /\ lastEvent.n >= lastEvent.info
        /\ lastEvent.n \in {lastEvent.image, lastEvent.info}
        /\ (lastEvent.image = 2 /\ lastEvent.info = 0) => lastEvent.n = 2
        /\ (lastEvent.image = 0 /\ lastEvent.info = 2) => lastEvent.n = 2

\* The camera_info side alone has publishers and the call counted them.
C15_Witness ==
    /\ lastEvent.op = "getNumPublishers"
    /\ ~unsubscribed_
    /\ lastEvent.image = 0
    /\ lastEvent.info = 2
    /\ lastEvent.n = 2

\* C16: the image subscription and the camera_info subscription have one
\* lifecycle: in every state between operations, from before the constructor
\* to after the destructor, the image subscription is open exactly when the
\* camera_info subscription is; they are open exactly while the subscriber is
\* constructed and not shut down.
C16_SubscriptionsOpenTogether ==
    /\ image_sub_open = info_sub_open
    /\ image_sub_open = (constructed = "yes" /\ ~unsubscribed_)

\* One shutdown() closed the two subscriptions the constructor had opened.
C16_Witness ==
    /\ lastEvent.op = "shutdown"
    /\ ~lastEvent.again
    /\ constructed = "yes"
    /\ ~image_sub_open
    /\ ~info_sub_open
    /\ unsub_calls = 2

\* C17: a constructor that throws, at whichever step (the image subscription
\* failing to open, the camera_info subscription failing after the image
\* subscription was opened, ...), hands the exception to the caller and leaves
\* nothing behind: no subscription open, no Impl, no timer; no callback and no
\* health check ever runs afterwards (the failed construction stays the last
\* event).
C17_FailedConstructionLeavesNothing ==
    constructed = "failed" =>
        /\ lastEvent.op = "construct"
        /\ lastEvent.threw
        /\ lastEvent.at \in {"topic", "image", "info", "timer"}
        /\ ~image_sub_open
        /\ ~info_sub_open
        /\ ~timer_active
        /\ ~impl_alive
        /\ image_received_ = 0 /\ info_received_ = 0 /\ both_received_ = 0

\* The camera_info subscription failed to open after the image subscription
\* had been opened.
C17_Witness ==
    /\ constructed = "failed"
    /\ lastEvent.op = "construct"
    /\ lastEvent.threw
    /\ lastEvent.at = "info"
    /\ ~image_sub_open

\* C18: a health check, warning or not, changes the three counters and
\* nothing else of the subscriber: validity, both subscriptions, the buffer and
\* the timer stay as they were; and a message arriving after a warning whose
\* partner is buffered is still delivered to the pair callback.
C18_CheckIsDiagnosticOnly ==
    [][/\ lastEvent'.op = "check" =>
            /\ UNCHANGED <<unsubscribed_, image_sub_open, info_sub_open,
                           unsub_calls, timer_active, impl_alive, tuples>>
            /\ IsValid' = IsValid
       /\ (/\ lastEvent'.op \in Sides
           /\ sinceWarn < WarnWindow
           /\ tuples[lastEvent'.key] = Sides \ {lastEvent'.op}) =>
            lastEvent'.cb = 1]_vars

\* A pair is delivered although a warning was emitted less than a window ago
\* and the subscriber is still valid.
C18_Witness ==
    /\ lastEvent.op \in Sides
    /\ lastEvent.cb = 1
    /\ sinceWarn < WarnWindow
    /\ ~unsubscribed_
    /\ timer_active

C20_BufferBounded ==
    [][lastEvent'.op \in Sides =>
        LET side == lastEvent'.op
            k == lastEvent'.key
            held == Stored(tuples, side, k)
            matched == held[k] = Sides
            rest == IF matched THEN [held EXCEPT ![k] = {}] ELSE held
        IN  /\ \A s \in Sides :
                   Cardinality({j \in DOMAIN tuples' : s \in tuples'[j]}) <= 10
            /\ Size(tuples') <= 10
            /\ Size(rest) <= 10 => tuples' = rest
            /\ Size(rest) > 10 =>
                   /\ tuples' = [rest EXCEPT ![Oldest(rest)] = {}]
                   /\ \A j \in DOMAIN rest : rest[j] # {} => Oldest(rest) <= j
            /\ lastEvent'.cb = (IF matched THEN 1 ELSE 0)
            /\ lastEvent'.cb = 1 => tuples[k] = Sides \ {side}
            /\ ~lastEvent'.warned
            /\ ~lastEvent'.threw
            /\ ~lastEvent'.crashed
      ]_vars

\* Ten images filled the buffer unmatched, a camera_info message pushed the
\* image with key 1 out, and the camera_info message with key 1, arriving
\* afterwards, is delivered to nobody.
C20_Witness ==
    /\ lastEvent.op = "info"
    /\ lastEvent.key = 1
    /\ lastEvent.cb = 0
    /\ image_received_ = 10
    /\ both_received_ = 0
    /\ info_received_ >= 2

C22_AccessorsSafe ==
    /\ lastEvent.op \in {"getTopic", "getInfoTopic", "getNumPublishers",
                         "getTransport"} => ~lastEvent.crashed
    /\ lastEvent.op = "getTopic" => lastEvent.str = "/camera/image"
    /\ lastEvent.op = "getInfoTopic" => lastEvent.str = "/camera/camera_info"
    /\ lastEvent.op = "getTransport" => lastEvent.str = "raw"
    /\ lastEvent.op = "getNumPublishers" => lastEvent.n \in 0..MaxPublishers

\* C23: a health check over a window without a matched pair (both_received_
\* = 0, threshold 0) warns exactly when the window counted at least one image
\* or camera_info message: an idle window does not warn, a window with a
\* single unmatched message does.
C23_PairlessWindowWarnsIffTraffic ==
    (lastEvent.op = "check" /\ lastEvent.both = 0) =>
        /\ lastEvent.warned <=> (lastEvent.image >= 1 \/ lastEvent.info >= 1)
        /\ (lastEvent.image = 0 /\ lastEvent.info = 0) => ~lastEvent.warned
        /\ (lastEvent.image + lastEvent.info = 1) => lastEvent.warned

\* A window that counted one camera_info message, no image and no pair was
\* evaluated and warned.
C23_Witness ==
    /\ lastEvent.op = "check"
    /\ lastEvent.both = 0
    /\ lastEvent.image = 0
    /\ lastEvent.info = 1
    /\ lastEvent.warned

\* An idle window was evaluated after a window with traffic and did not warn.
C23_IdleWindow ==
    /\ lastEvent.op = "check"
    /\ lastEvent.both = 0
    /\ lastEvent.image = 0
    /\ lastEvent.info = 0
    /\ ~lastEvent.warned
    /\ sinceWarn < WarnWindow

\* C24: the plugin holds at most one channel at any time: the open channels
\* are exactly the one pub_ refers to, or none when pub_ is null. An advertise
\* that succeeds leaves the channel it created as the only one, shutdown()
\* leaves none, and a publish on a plugin that holds a channel, one opened
\* after a shutdown() included, is forwarded to it and logs no invalid-plugin
\* error.
C24_AtMostOneChannel ==
    /\ Cardinality(open_channels) <= 1
    /\ open_channels = IF simple_impl_ /\ pub_ # 0 THEN {pub_} ELSE {}
    /\ (pubEvent.op = "advertise" /\ ~pubEvent.threw) =>
           (simple_impl_ /\ pub_ = advertised /\ open_channels = {advertised})
    /\ pubEvent.op = "shutdown" => (~simple_impl_ /\ open_channels = {})
    /\ (pubEvent.op = "publish" /\ simple_impl_ /\ pub_ # 0) =>
           (~pubEvent.invalid /\ ~pubEvent.logged)

\* After a shutdown() and a second advertise the plugin holds the second
\* channel alone, and a publish was sent on it.
C24_Witness ==
    /\ was_shutdown
    /\ advertised = 2
    /\ pub_ = 2
    /\ open_channels = {2}
    /\ pubEvent.op = "publish"
    /\ pubEvent.sent = 1
    /\ ~pubEvent.logged


====
